---- MODULE Spec2Model ----
(***************************************************************************)
(* Acquisition-and-distribution pipeline of piccaccel-lnx:                 *)
(*   adxl355-rs   : register-level ADXL355 driver (new, start, accel_raw,  *)
(*                  accel_norm)                                            *)
(*   accel-daemon : accelerator_init / accelerator_callback (edge mode),   *)
(*                  accelerator_task (polling mode), main                  *)
(*   accel-data   : AccelData, tcp_server, handle_client_tcp,              *)
(*                  handle_client_wsock                                    *)
(* Time is counted in microseconds.  An Instant is the value of clock at   *)
(* the moment Instant::now() is evaluated; NoInstant stands for None.      *)
(* All durations of the model are far below 2^32, so the `as u32` applied  *)
(* to as_micros() never truncates.                                         *)
(***************************************************************************)
EXTENDS Integers, Sequences, FiniteSets, TLC

\* ------------------------------------------------------------------ bounds
\* triggers (callback invocations or polling iterations) per device
MaxTriggers == 3
\* polling iterations explored by the fan-out specification
MaxSends == 131
\* callback invocations per device explored with two descriptors
MaxEdges == 2
\* callback invocations explored by the rate specification
MaxRateTriggers == 2002
\* callback invocations explored by the race specification
MaxRaceTriggers == 3
\* polling iterations explored by the shutdown specification
MaxPolls == 2
\* falling edges of the idle specification
MaxIdleEdges == 3
\* falling edges of the observation specification
MaxObsEdges == 3

\* --------------------------------------------------------- program constants
EXPECTED_DEVICE_ID == 237
ACCEL_MAX_I20 == 524287
ChannelCapacity == 100
SettleMicros == 100000
PollSleepMicros == 900
TcpBufCapacity == 1024
WsBufCapacity == 128
SizeOfAccelData == 20

\* device indices a descriptor list may hold, and connection slots of the server
Devices == {0, 1}
Handlers == {1, 2}

NoInstant == -1

\* ------------------------------------------------------ environment inputs
\* identity values a chip on the bus may answer with
ChipIds == {EXPECTED_DEVICE_ID, 29}
\* 9-byte data blocks (XDATA3..ZDATA1) a chip may answer with: the largest
\* positive, the most negative and the -1 20-bit sample on x, y, z
Blocks == { <<127, 255, 255,  128, 0, 0,  255, 255, 240>> }
\* the buffer after a failed transfer: the zeros accel_raw initialised it with
ZeroBlock == <<0, 0, 0,  0, 0, 0,  0, 0, 0>>
FailBlocks == { ZeroBlock }
\* duration of one 10-byte sample transaction
ReadMicros == {60}
\* time from the previous event to the next falling edge of a DRDY line
EdgeMicros == {400, 1000}

\* ---------------------------------------------------------------- driver
\* ODR_LPF::ODR_1000_Hz, the configured ACCEL_ODR
ACCEL_ODR == "ODR_1000_Hz"

get_odr(odr) ==
    CASE odr = "ODR_4000_Hz" -> 250
      [] odr = "ODR_2000_Hz" -> 500
      [] odr = "ODR_1000_Hz" -> 1000
      [] odr = "ODR_500_Hz" -> 2000
      [] odr = "ODR_250_Hz" -> 4000
      [] odr = "ODR_125_Hz" -> 8000
      [] odr = "ODR_62_5_Hz" -> 16000
      [] odr = "ODR_31_25_Hz" -> 32000
      [] odr = "ODR_15_625_Hz" -> 64000
      [] odr = "ODR_7_813_Hz" -> 128000
      [] odr = "ODR_3_906_Hz" -> 256000

\* Range::_2G as f32, the scale applied by accel_norm
RangeScale == 2

\* Result values
Ok(v) == [ok |-> TRUE, val |-> v]
Err(v) == [ok |-> FALSE, val |-> v]

\* a decode whose right shift does not propagate the sign
AxisUnsigned(b0, b1, b2) == b0 * 4096 + b1 * 16 + b2 \div 16

\* one axis: (((b0 as i32) << 24) | ((b1 as i32) << 16) | ((b2 & 0xF0) as i32) << 8) >> 12
\* The shift of b0 wraps into the sign bit of the i32; >> is arithmetic.
Axis(b0, b1, b2) ==
    LET hi == IF b0 >= 128 THEN b0 - 256 ELSE b0
        word == hi * 16777216 + b1 * 65536 + (b2 - (b2 % 16)) * 256
    IN  word \div 4096

\* Adxl355::read: transfer_in_place(bytes).ok() -- the outcome is discarded,
\* the caller continues with whatever the buffer holds.
read(io) == io.bytes

\* RawAccelerometer::accel_raw; io = [ok, bytes] is the outcome of the
\* transfer and the 9 data bytes of the buffer after it
accel_raw(io) ==
    LET bytes == read(io)
    IN  Ok([x |-> Axis(bytes[1], bytes[2], bytes[3]),
            y |-> Axis(bytes[4], bytes[5], bytes[6]),
            z |-> Axis(bytes[7], bytes[8], bytes[9])])

\* the settings of the RANGE register and `self.range.into()`, the range in
\* g as f32 (conf.rs)
Ranges == {"_2G", "_4G", "_8G"}
RangeInto(range) ==
    CASE range = "_2G" -> 2
      [] range = "_4G" -> 4
      [] range = "_8G" -> 8

\* a normalization by 2^19 that leaves the range out
NormPlain(raw, scale) == [num |-> raw, den |-> ACCEL_MAX_I20 + 1]

\* one component of accel_norm: (raw as f32 / ACCEL_MAX_I20 as f32) * range,
\* kept as the exact fraction num/den.  raw and ACCEL_MAX_I20 are below
\* 2^24, so both casts are exact; the f32 quotient is the f32 nearest to
\* raw / ACCEL_MAX_I20 and its product with 2, 4 or 8 is exact.
NormAt(raw, scale) == [num |-> raw * scale, den |-> ACCEL_MAX_I20]

Norm(raw) == NormAt(raw, RangeScale)

\* Accelerometer::accel_norm of a handle configured with range
accel_norm_of(range, io) ==
    LET raw_data == accel_raw(io)
        scale == RangeInto(range)
    IN  IF ~raw_data.ok THEN raw_data
        ELSE Ok([x |-> NormAt(raw_data.val.x, scale),
                 y |-> NormAt(raw_data.val.y, scale),
                 z |-> NormAt(raw_data.val.z, scale)])

\* Accelerometer::accel_norm
accel_norm(io) ==
    LET raw_data == accel_raw(io)
    IN  IF ~raw_data.ok THEN raw_data
        ELSE Ok([x |-> Norm(raw_data.val.x),
                 y |-> Norm(raw_data.val.y),
                 z |-> Norm(raw_data.val.z)])

\* outcomes of a sample transaction: success with chip data, or failure
SampleIO == [ok : {TRUE}, bytes : Blocks] \cup [ok : {FALSE}, bytes : FailBlocks]

\* Adxl355::new.  idok/id: outcome and value of the identity read; fok, rok:
\* outcomes of the FILTER and RANGE register writes.  TRUE iff a handle is
\* returned.  The identity comparison has an empty body.
Adxl355_new(idok, id, fok, rok) ==
    idok /\ fok /\ rok

\* ODR_LPF, HPF_CORNER (conf.rs) and the Config a caller may pass
Odrs == {"ODR_4000_Hz", "ODR_2000_Hz", "ODR_1000_Hz", "ODR_500_Hz", "ODR_250_Hz",
         "ODR_125_Hz", "ODR_62_5_Hz", "ODR_31_25_Hz", "ODR_15_625_Hz",
         "ODR_7_813_Hz", "ODR_3_906_Hz"}
Configs == [odr : Odrs, hpf : {"_0_238_ODR"}, range : Ranges]

\* one bus transaction: spi.transfer_in_place of read_reg, spi.write of write_reg
ReadReg(reg) == [op |-> "read", reg |-> reg, val |-> <<>>]
WriteReg(reg, value) == [op |-> "write", reg |-> reg, val |-> value]

\* a constructor that reads the identity a second time when the read fails
Adxl355_new_retry(config, idok, id, fok, rok) ==
    LET t1 == <<ReadReg("DEVID")>>
        t2 == Append(t1, WriteReg("FILTER", <<config.hpf, config.odr>>))
        t3 == Append(t2, WriteReg("RANGE", <<config.range>>))
    IN  IF ~idok THEN [ok |-> FALSE, bus |-> t1 \o t1]
        ELSE IF ~fok THEN [ok |-> FALSE, bus |-> t2]
        ELSE [ok |-> rok, bus |-> t3]

\* Adxl355::new with the transactions it issues, in order: get_device_id()?,
\* the empty identity comparison, write_reg(FILTER, ..)?, write_reg(RANGE, ..)?
Adxl355_new_bus(config, idok, id, fok, rok) ==
    LET t1 == <<ReadReg("DEVID")>>
        t2 == Append(t1, WriteReg("FILTER", <<config.hpf, config.odr>>))
        t3 == Append(t2, WriteReg("RANGE", <<config.range>>))
    IN  IF ~idok THEN [ok |-> FALSE, bus |-> t1]
        ELSE IF ~fok THEN [ok |-> FALSE, bus |-> t2]
        ELSE [ok |-> rok, bus |-> t3]

\* Adxl355::start: self.write_reg(Register::POWER_CTL.addr(), 0)
start(wok) == [ok |-> wok, bus |-> <<WriteReg("POWER_CTL", <<0>>)>>]

\* AccelData
AccelData(idx, gap, v) == [idx |-> idx, gap |-> gap, x |-> v.x, y |-> v.y, z |-> v.z]
NoReading == [idx |-> -1, gap |-> 0, x |-> Norm(0), y |-> Norm(0), z |-> Norm(0)]

\* The wire form works on bit patterns.  A u32 is the pair <<hi, lo>> of its
\* 16-bit halves; an f32 is [sign, exp, man], the fields of its IEEE-754
\* single-precision encoding (1, 8 and 23 bits).
\* a serialization that writes the most significant byte first
to_be_bytes(w) == <<w[1] \div 256, w[1] % 256, w[2] \div 256, w[2] % 256>>

\* u32::to_le_bytes
to_le_bytes(w) == <<w[2] % 256, w[2] \div 256, w[1] % 256, w[1] \div 256>>

\* f32::to_bits, the u32 whose bytes f32::to_le_bytes writes
to_bits(f) == <<f.sign * 32768 + f.exp * 128 + f.man \div 65536, f.man % 65536>>

\* AccelData::as_bytes
as_bytes(self) ==
    to_le_bytes(self.idx) \o to_le_bytes(self.gap) \o to_le_bytes(to_bits(self.x))
        \o to_le_bytes(to_bits(self.y)) \o to_le_bytes(to_bits(self.z))

\* ------------------------------------------------- acquisition engine helpers
\* past.swap(None).map(|past| now - past).unwrap_or(get_odr(ACCEL_ODR))
SwapGap(slot, now) ==
    IF slot # NoInstant THEN now - slot ELSE get_odr(ACCEL_ODR)

\* the value the swap leaves in the TimestampSlot
SwapInstalled(now) == NoInstant

\* datarate.count.fetch_add(1) followed by datarate.last.fetch_update(..)
RateUpdate(dr, now) ==
    LET count == dr.count + 1
    IN  IF dr.last = NoInstant THEN [last |-> now, count |-> count]
        ELSE IF now - dr.last < 1000000 THEN [last |-> dr.last, count |-> count]
        ELSE [last |-> now, count |-> 0]

\* the closure of fetch_update on the window start past, called by an
\* invocation that captured now, with count the value of the counter:
\* the window start to install (keep: none, the update is abandoned), the
\* value left in the counter by count.swap(0), and the data rates logged.
\* A logged rate is count / micros; start is the window it closes.
\* as_secs_f32() < 1.0 holds exactly for the whole-microsecond durations
\* below 1000000.
RateClosure(past, now, count) ==
    IF past = NoInstant
    THEN [keep |-> FALSE, new |-> now, count |-> count, log |-> <<>>]
    ELSE IF now - past < 1000000
         THEN [keep |-> TRUE, new |-> past, count |-> count, log |-> <<>>]
         ELSE [keep |-> FALSE, new |-> now, count |-> 0,
               log |-> <<[count |-> count, micros |-> now - past, start |-> past]>>]

\* the data rates logged by RateUpdate
RateReport(dr, now) == RateClosure(dr.last, now, dr.count + 1).log

\* ------------------------------------------------- broadcast channel (tokio)
\* broadcast::channel(capacity) rounds the capacity up to a power of two
RECURSIVE PowerOfTwoFrom(_, _)
PowerOfTwoFrom(p, n) == IF p >= n THEN p ELSE PowerOfTwoFrom(2 * p, n)
next_power_of_two(n) == PowerOfTwoFrom(1, n)

BufLen == next_power_of_two(ChannelCapacity)

\* a producer that publishes without looking at the receivers
HasNoCheck(t) == TRUE

\* sink.receiver_count() > 0
HasReceivers(t) == t.rx_cnt > 0

\* a sender that refuses a value when the ring is full
SendRejectFull(t, b, v) ==
    IF t.rx_cnt = 0 \/ Len(b) = BufLen
    THEN [ok |-> FALSE, tail |-> t, buffer |-> b]
    ELSE [ok |-> TRUE,
          tail |-> [t EXCEPT !.pos = @ + 1],
          buffer |-> Append(b, [pos |-> t.pos, val |-> v])]

\* Sender::send: fails without storing when there is no receiver; otherwise
\* stores the value in the slot of tail.pos, releasing the oldest retained
\* value of a full ring.  buffer is the retained slots [pos, val], oldest
\* first: positions tail.pos - Len(buffer) .. tail.pos - 1.
Send(t, b, v) ==
    IF t.rx_cnt = 0
    THEN [ok |-> FALSE, tail |-> t, buffer |-> b]
    ELSE [ok |-> TRUE,
          tail |-> [t EXCEPT !.pos = @ + 1],
          buffer |-> IF Len(b) = BufLen
                     THEN Tail(b) \o <<[pos |-> t.pos, val |-> v]>>
                     ELSE Append(b, [pos |-> t.pos, val |-> v])]

\* position of the oldest retained value
Oldest(t, b) == t.pos - Len(b)

NoSlot == [pos |-> -1, val |-> NoReading]

\* a receiver that skips the value after the one it returns
RecvSkipping(t, b, next) ==
    IF next = t.pos THEN [kind |-> "empty", next |-> next, slot |-> NoSlot]
    ELSE IF next < Oldest(t, b)
         THEN [kind |-> "lagged", next |-> Oldest(t, b), slot |-> NoSlot]
         ELSE [kind |-> "ok",
               next |-> IF next + 2 <= t.pos THEN next + 2 ELSE next + 1,
               slot |-> b[next - Oldest(t, b) + 1]]

\* Receiver::recv for a receiver whose cursor is next: nothing to receive
\* (the call waits), Lagged (the cursor jumps to the oldest retained value),
\* or the value at the cursor
Recv(t, b, next) ==
    IF next = t.pos THEN [kind |-> "empty", next |-> next, slot |-> NoSlot]
    ELSE IF next < Oldest(t, b)
         THEN [kind |-> "lagged", next |-> Oldest(t, b), slot |-> NoSlot]
         ELSE [kind |-> "ok", next |-> next + 1, slot |-> b[next - Oldest(t, b) + 1]]

\* ------------------------------------------------------------------- state
VARIABLES
    mode,       \* "edge" (accelerator_init) or "poll" (accelerator_task)
    clock,      \* Instant::now()
    running,    \* the shared AtomicBool
    pc,         \* per device: stage of its start-up / steady state
    cur,        \* accelerator_init: index of the descriptor being handled
    ret,        \* accelerator_init: "none", "ok" (Ok(pins)) or "err"
    pins,       \* accelerator_init: the pins collected so far
    syncNow,    \* accelerator_init: `now`, the synchronization point
    devid,      \* per device: value returned by get_device_id (-1: none yet)
    past,       \* per device: the TimestampSlot of its callback
    datarate,   \* per device: AccelDataRate [last, count]
    now,        \* per device: accelerator_task's local `now`
    gap,        \* per device: `gap` / `dur` of the latest trigger
    pending,    \* per device: the AccelData about to be sent
    tail,       \* channel: [pos, rx_cnt]
    buffer,     \* channel: retained slots, oldest first
    hpc,        \* per handler: "free", "recv" (in its loop), "done"
    kind,       \* the handler the server spawns: "tcp" or "wsock"
    next,       \* per handler: cursor of its Receiver
    buf,        \* per handler: the batch buffer
    out,        \* per handler: the batches written to its client
    trig,       \* history, per device: instants captured by its triggers
    lastRead,   \* history, per device: [busOk, resOk] of its latest sample read
    published,  \* history: every AccelData stored by Send, in order
    recvd,      \* history, per handler: [pos, val] slots it received
    subAt,      \* history, per handler: Len(published) when it subscribed
    lagged,     \* history, per handler: Lagged was returned to it
    reports,    \* per device: the data rates logged by its Rate Tracker
    inv,        \* per invocation of accelerator_callback that runs step by step: its locals
    mainpc,     \* main: "wait" (while running), "join" (awaiting the tasks), "done"
    arg,        \* argument of the function call under study (<<>>: none)
    res         \* its result (<<>>: not called yet)

engineVars == <<pc, cur, ret, pins, syncNow, devid, past, datarate, now, gap, pending>>
chanVars == <<tail, buffer, published>>
handlerVars == <<hpc, kind, next, buf, out, recvd, subAt, lagged>>
histVars == <<trig, lastRead>>
callVars == <<arg, res>>
sideVars == <<reports, inv, mainpc, callVars>>
vars == <<mode, clock, running, engineVars, chanVars, handlerVars, histVars, sideVars>>

Kinds == {"tcp", "wsock"}
\* the transport bindings of accel-data: the two connection handlers and
\* udp_server, which is its own single subscriber
Bindings == Kinds \cup {"udp"}

\* invocations of accelerator_callback that may be in progress at once for
\* one data-ready line, and the locals of one that is not running
Invocations == {1, 2}
NoInvocation == [pc |-> "idle", now |-> NoInstant, seen |-> NoInstant, new |-> NoInstant]

\* the state after main has created the flag and the channel, for the
\* descriptor list holding the devices descs
InitOn(descs) ==
    /\ mode \in {"edge", "poll"}
    /\ clock = 0
    /\ running = TRUE
    /\ pc = [d \in Devices |-> IF d \notin descs THEN "absent"
                                ELSE IF mode = "poll" THEN "spi" ELSE "drdy"]
    /\ cur = -1
    /\ ret = "none"
    /\ pins = <<>>
    /\ syncNow = 0
    /\ devid = [d \in Devices |-> -1]
    /\ past = [d \in Devices |-> NoInstant]
    /\ datarate = [d \in Devices |-> [last |-> NoInstant, count |-> 0]]
    /\ now = [d \in Devices |-> NoInstant]
    /\ gap = [d \in Devices |-> 0]
    /\ pending = [d \in Devices |-> NoReading]
    /\ tail = [pos |-> 0, rx_cnt |-> 0]
    /\ buffer = <<>>
    /\ hpc = [h \in Handlers |-> "free"]
    /\ kind \in Kinds
    /\ next = [h \in Handlers |-> 0]
    /\ buf = [h \in Handlers |-> <<>>]
    /\ out = [h \in Handlers |-> <<>>]
    /\ trig = [d \in Devices |-> <<>>]
    /\ lastRead = [d \in Devices |-> [busOk |-> TRUE, resOk |-> TRUE]]
    /\ published = <<>>
    /\ recvd = [h \in Handlers |-> <<>>]
    /\ subAt = [h \in Handlers |-> 0]
    /\ lagged = [h \in Handlers |-> FALSE]
    /\ reports = [d \in Devices |-> <<>>]
    /\ inv = [i \in Invocations |-> NoInvocation]
    /\ mainpc = "wait"

\* no function call is under study
NoCall == arg = <<>> /\ res = <<>>

\* main.rs: acceldescs holds one descriptor
Init == InitOn({0}) /\ NoCall

\* acceldescs.len()
NumDescs == Cardinality({d \in Devices : pc[d] # "absent"})

slotVars == <<past, datarate, now, gap, pending>>
envVars == <<mode, running>>

\* --------------------------------------------------- start-up of one device
\* accelerator_init handles the descriptors one after the other; the
\* accelerator_task of each device runs on its own
Turn(d) == mode = "poll" \/ (cur = d /\ ret = "none")

\* the filter_map closure returns for the current descriptor; after the
\* last descriptor accelerator_init returns Ok(pins)
NextDesc ==
    IF mode = "edge"
    THEN /\ cur' = cur + 1
         /\ ret' = IF cur + 1 = NumDescs THEN "ok" ELSE ret
    ELSE UNCHANGED <<cur, ret>>

\* an initialization that gives up at the first device that fails
FailAborts(d) == pc' = [pc EXCEPT ![d] = "failed"] /\ cur' = cur /\ ret' = "err"

Fail(d) == pc' = [pc EXCEPT ![d] = "failed"] /\ NextDesc
Goto(d, stage) == pc' = [pc EXCEPT ![d] = stage] /\ UNCHANGED <<cur, ret>>

\* Gpio::new()?
GpioNew ==
    /\ mode = "edge" /\ cur = -1 /\ ret = "none"
    /\ \E ok \in BOOLEAN :
         IF ok THEN cur' = 0 /\ ret' = ret ELSE cur' = cur /\ ret' = "err"
    /\ UNCHANGED <<envVars, clock, pc, pins, syncNow, devid, slotVars,
                   chanVars, handlerVars, histVars, sideVars>>

\* gpio.get(acceldesc.drdy)
DrdyGet(d) ==
    /\ mode = "edge" /\ Turn(d) /\ pc[d] = "drdy"
    /\ \E ok \in BOOLEAN : IF ok THEN Goto(d, "spi") ELSE Fail(d)
    /\ UNCHANGED <<envVars, clock, pins, syncNow, devid, slotVars,
                   chanVars, handlerVars, histVars, sideVars>>

\* Spi::new(..)
SpiNew(d) ==
    /\ Turn(d) /\ pc[d] = "spi"
    /\ \E ok \in BOOLEAN : IF ok THEN Goto(d, "new") ELSE Fail(d)
    /\ UNCHANGED <<envVars, clock, pins, syncNow, devid, slotVars,
                   chanVars, handlerVars, histVars, sideVars>>

\* adxl355::Adxl355::new(spi, config)
AdxlNew(d) ==
    /\ Turn(d) /\ pc[d] = "new"
    /\ \E idok, fok, rok \in BOOLEAN, id \in ChipIds :
         /\ devid' = [devid EXCEPT ![d] = IF idok THEN id ELSE -1]
         /\ IF Adxl355_new(idok, id, fok, rok) THEN Goto(d, "start") ELSE Fail(d)
    /\ UNCHANGED <<envVars, clock, pins, syncNow, slotVars,
                   chanVars, handlerVars, histVars, sideVars>>

\* accel.start(): one write of POWER_CTL
Start(d) ==
    /\ Turn(d) /\ pc[d] = "start"
    /\ \E ok \in BOOLEAN : IF ok THEN Goto(d, "settle") ELSE Fail(d)
    /\ UNCHANGED <<envVars, clock, pins, syncNow, devid, slotVars,
                   chanVars, handlerVars, histVars, sideVars>>

\* thread::sleep(Duration::from_millis(100))
Settle(d) ==
    /\ Turn(d) /\ pc[d] = "settle"
    /\ clock' = clock + SettleMicros
    /\ Goto(d, "diag")
    /\ UNCHANGED <<envVars, pins, syncNow, devid, slotVars,
                   chanVars, handlerVars, histVars, sideVars>>

\* a start-up that hands its diagnostic sample to the channel
DiagPublishes(d) ==
    /\ Turn(d) /\ pc[d] = "diag"
    /\ \E io \in SampleIO, dt \in ReadMicros :
         LET r == Send(tail, buffer, AccelData(d, 0, accel_norm(io).val))
         IN  /\ clock' = clock + dt
             /\ tail' = r.tail
             /\ buffer' = r.buffer
             /\ published' = IF r.ok THEN Append(published, AccelData(d, 0, accel_norm(io).val))
                              ELSE published
    /\ IF mode = "poll"
       THEN /\ now' = [now EXCEPT ![d] = clock']
            /\ Goto(d, "loop")
       ELSE /\ now' = now
            /\ Goto(d, "attach")
    /\ UNCHANGED <<envVars, pins, syncNow, devid, past, datarate, gap, pending,
                   handlerVars, histVars, sideVars>>

\* the diagnostic accel_norm(), logged only; accelerator_task then takes
\* `let mut now = Instant::now()` and enters its loop
Diag(d) ==
    /\ Turn(d) /\ pc[d] = "diag"
    /\ \E io \in SampleIO, dt \in ReadMicros :
         /\ accel_norm(io).ok \in BOOLEAN
         /\ clock' = clock + dt
    /\ IF mode = "poll"
       THEN /\ now' = [now EXCEPT ![d] = clock']
            /\ Goto(d, "loop")
       ELSE /\ now' = now
            /\ Goto(d, "attach")
    /\ UNCHANGED <<envVars, pins, syncNow, devid, past, datarate, gap, pending,
                   chanVars, handlerVars, histVars, sideVars>>

\* past = Some(now), datarate = {none, 0}, drdy.set_async_interrupt(..)
Attach(d) ==
    /\ mode = "edge" /\ Turn(d) /\ pc[d] = "attach"
    /\ past' = [past EXCEPT ![d] = syncNow]
    /\ datarate' = [datarate EXCEPT ![d] = [last |-> NoInstant, count |-> 0]]
    /\ \E ok \in BOOLEAN :
         IF ok
         THEN pc' = [pc EXCEPT ![d] = "armed"] /\ pins' = Append(pins, d)
         ELSE pc' = [pc EXCEPT ![d] = "failed"] /\ pins' = pins
    /\ NextDesc
    /\ UNCHANGED <<envVars, clock, syncNow, devid, now, gap, pending,
                   chanVars, handlerVars, histVars, sideVars>>

\* ------------------------------------------------------------ steady state
\* a callback that takes the gap from the window start when it closes a window
CallbackRateGap(d, ios, dts, more) ==
    /\ mode = "edge" /\ pc[d] = "armed"
    /\ more
    /\ \E dt \in dts, io \in ios :
         LET tnow == clock + dt
             g == IF RateReport(datarate[d], tnow) # <<>>
                  THEN tnow - datarate[d].last
                  ELSE SwapGap(past[d], tnow)
             data == accel_norm(io)
         IN  /\ clock' = tnow
             /\ gap' = [gap EXCEPT ![d] = g]
             /\ past' = [past EXCEPT ![d] = SwapInstalled(tnow)]
             /\ datarate' = [datarate EXCEPT ![d] = RateUpdate(@, tnow)]
             /\ reports' = [reports EXCEPT ![d] = @ \o RateReport(datarate[d], tnow)]
             /\ trig' = [trig EXCEPT ![d] = Append(@, tnow)]
             /\ lastRead' = [lastRead EXCEPT ![d] = [busOk |-> io.ok, resOk |-> data.ok]]
             /\ IF data.ok /\ HasReceivers(tail)
                THEN /\ pending' = [pending EXCEPT ![d] = AccelData(d, g, data.val)]
                     /\ pc' = [pc EXCEPT ![d] = "cbsend"]
                ELSE UNCHANGED <<pending, pc>>
    /\ UNCHANGED <<envVars, cur, ret, pins, syncNow, devid, now,
                   chanVars, handlerVars, inv, mainpc, callVars>>

\* accelerator_callback up to the receiver_count() check; the falling edge
\* arrives dt after the previous event
CallbackOn(d, ios, dts, more) ==
    /\ mode = "edge" /\ pc[d] = "armed"
    /\ more
    /\ \E dt \in dts, io \in ios :
         LET tnow == clock + dt
             g == SwapGap(past[d], tnow)
             data == accel_norm(io)
         IN  /\ clock' = tnow
             /\ gap' = [gap EXCEPT ![d] = g]
             /\ past' = [past EXCEPT ![d] = SwapInstalled(tnow)]
             /\ datarate' = [datarate EXCEPT ![d] = RateUpdate(@, tnow)]
             /\ reports' = [reports EXCEPT ![d] = @ \o RateReport(datarate[d], tnow)]
             /\ trig' = [trig EXCEPT ![d] = Append(@, tnow)]
             /\ lastRead' = [lastRead EXCEPT ![d] = [busOk |-> io.ok, resOk |-> data.ok]]
             /\ IF data.ok /\ HasReceivers(tail)
                THEN /\ pending' = [pending EXCEPT ![d] = AccelData(d, g, data.val)]
                     /\ pc' = [pc EXCEPT ![d] = "cbsend"]
                ELSE UNCHANGED <<pending, pc>>
    /\ UNCHANGED <<envVars, cur, ret, pins, syncNow, devid, now,
                   chanVars, handlerVars, inv, mainpc, callVars>>

Callback(d) == CallbackOn(d, SampleIO, EdgeMicros, Len(trig[d]) < MaxTriggers)

\* sink.send(AccelData {..}) and the rest of the trigger, which takes rest
SendStep(d, from, to, rest) ==
    /\ pc[d] = from
    /\ clock' = clock + rest
    /\ LET r == Send(tail, buffer, pending[d])
       IN  /\ tail' = r.tail
           /\ buffer' = r.buffer
           /\ published' = IF r.ok THEN Append(published, pending[d]) ELSE published
    /\ pending' = [pending EXCEPT ![d] = NoReading]
    /\ pc' = [pc EXCEPT ![d] = to]
    /\ UNCHANGED <<envVars, cur, ret, pins, syncNow, devid, past, datarate,
                   now, gap, handlerVars, histVars, sideVars>>

CallbackSend(d) == SendStep(d, "cbsend", "armed", 0)

\* a polling loop that never looks at the shutdown flag
PollIterNoStop(d, ios, dts, more) ==
    /\ mode = "poll" /\ pc[d] = "loop"
    /\ IF FALSE
       THEN /\ pc' = [pc EXCEPT ![d] = "done"]
            /\ UNCHANGED <<clock, now, gap, pending, histVars>>
       ELSE /\ more
            /\ \E io \in ios, dt \in dts :
                 LET tnow == clock + dt
                     data == accel_norm(io)
                     dur == tnow - now[d]
                 IN  /\ trig' = [trig EXCEPT ![d] = Append(@, tnow)]
                     /\ lastRead' = [lastRead EXCEPT ![d] = [busOk |-> io.ok, resOk |-> data.ok]]
                     /\ IF data.ok
                        THEN /\ gap' = [gap EXCEPT ![d] = dur]
                             /\ now' = [now EXCEPT ![d] = tnow]
                             /\ IF HasReceivers(tail)
                                THEN /\ pending' = [pending EXCEPT ![d] = AccelData(d, dur, data.val)]
                                     /\ pc' = [pc EXCEPT ![d] = "send"]
                                     /\ clock' = tnow
                                ELSE /\ UNCHANGED <<pending, pc>>
                                     /\ clock' = tnow + PollSleepMicros
                        ELSE /\ UNCHANGED <<gap, now, pending, pc>>
                             /\ clock' = tnow + PollSleepMicros
    /\ UNCHANGED <<envVars, cur, ret, pins, syncNow, devid, past, datarate,
                   chanVars, handlerVars, sideVars>>

\* a polling loop that moves its previous sample time on a publish only
PollIterSincePublished(d, ios, dts, more) ==
    /\ mode = "poll" /\ pc[d] = "loop"
    /\ IF ~running
       THEN /\ pc' = [pc EXCEPT ![d] = "done"]
            /\ UNCHANGED <<clock, now, gap, pending, histVars>>
       ELSE /\ more
            /\ \E io \in ios, dt \in dts :
                 LET tnow == clock + dt
                     data == accel_norm(io)
                     dur == tnow - now[d]
                 IN  /\ trig' = [trig EXCEPT ![d] = Append(@, tnow)]
                     /\ lastRead' = [lastRead EXCEPT ![d] = [busOk |-> io.ok, resOk |-> data.ok]]
                     /\ IF data.ok
                        THEN /\ gap' = [gap EXCEPT ![d] = dur]
                             /\ now' = [now EXCEPT ![d] = IF HasReceivers(tail) THEN tnow ELSE @]
                             /\ IF HasReceivers(tail)
                                THEN /\ pending' = [pending EXCEPT ![d] = AccelData(d, dur, data.val)]
                                     /\ pc' = [pc EXCEPT ![d] = "send"]
                                     /\ clock' = tnow
                                ELSE /\ UNCHANGED <<pending, pc>>
                                     /\ clock' = tnow + PollSleepMicros
                        ELSE /\ UNCHANGED <<gap, now, pending, pc>>
                             /\ clock' = tnow + PollSleepMicros
    /\ UNCHANGED <<envVars, cur, ret, pins, syncNow, devid, past, datarate,
                   chanVars, handlerVars, sideVars>>

\* one iteration of the loop of accelerator_task: up to the
\* receiver_count() check when a send follows, else to the end of
\* thread::sleep(900 us); the sample transaction takes dt
PollIterOn(d, ios, dts, more) ==
    /\ mode = "poll" /\ pc[d] = "loop"
    /\ IF ~running
       THEN /\ pc' = [pc EXCEPT ![d] = "done"]
            /\ UNCHANGED <<clock, now, gap, pending, histVars>>
       ELSE /\ more
            /\ \E io \in ios, dt \in dts :
                 LET tnow == clock + dt
                     data == accel_norm(io)
                     dur == tnow - now[d]
                 IN  /\ trig' = [trig EXCEPT ![d] = Append(@, tnow)]
                     /\ lastRead' = [lastRead EXCEPT ![d] = [busOk |-> io.ok, resOk |-> data.ok]]
                     /\ IF data.ok
                        THEN /\ gap' = [gap EXCEPT ![d] = dur]
                             /\ now' = [now EXCEPT ![d] = tnow]
                             /\ IF HasReceivers(tail)
                                THEN /\ pending' = [pending EXCEPT ![d] = AccelData(d, dur, data.val)]
                                     /\ pc' = [pc EXCEPT ![d] = "send"]
                                     /\ clock' = tnow
                                ELSE /\ UNCHANGED <<pending, pc>>
                                     /\ clock' = tnow + PollSleepMicros
                        ELSE /\ UNCHANGED <<gap, now, pending, pc>>
                             /\ clock' = tnow + PollSleepMicros
    /\ UNCHANGED <<envVars, cur, ret, pins, syncNow, devid, past, datarate,
                   chanVars, handlerVars, sideVars>>

PollIter(d) == PollIterOn(d, SampleIO, ReadMicros, Len(trig[d]) < MaxTriggers)

\* the send of an iteration and its thread::sleep(Duration::from_micros(900))
PollSend(d) == SendStep(d, "send", "loop", PollSleepMicros)

\* the ctrl_c task: running.store(false)
CtrlC ==
    /\ running
    /\ running' = FALSE
    /\ UNCHANGED <<mode, clock, engineVars, chanVars, handlerVars, histVars, sideVars>>

\* main after it spawned the tasks: it sleeps while the flag is set, then
\* aborts the server task
MainObserve ==
    /\ mode = "poll" /\ mainpc = "wait" /\ ~running
    /\ mainpc' = "join"
    /\ UNCHANGED <<envVars, clock, engineVars, chanVars, handlerVars, histVars,
                   reports, inv, callVars>>

\* main awaits every polling task, then the aborted server task, and returns
MainJoin ==
    /\ mainpc = "join"
    /\ \A d \in Devices : pc[d] \in {"absent", "failed", "done"}
    /\ mainpc' = "done"
    /\ UNCHANGED <<envVars, clock, engineVars, chanVars, handlerVars, histVars,
                   reports, inv, callVars>>

\* ------------------------------------------------------ distribution layer
\* a handler whose Receiver outlives it
CloseKeepsReceiver(h) ==
    /\ hpc' = [hpc EXCEPT ![h] = "done"]
    /\ tail' = tail

\* the Receiver of a handler is dropped when the handler returns
Close(h) ==
    /\ hpc' = [hpc EXCEPT ![h] = "done"]
    /\ tail' = [tail EXCEPT !.rx_cnt = @ - 1]

\* the loop condition, running.load(Ordering::Relaxed): the handler waits in
\* source.recv() again, or leaves its loop and returns
Loop(h) ==
    IF running
    THEN hpc' = [hpc EXCEPT ![h] = "recv"] /\ tail' = tail
    ELSE Close(h)

\* tcp_server accepts a connection and spawns its handler, which subscribes
\* and enters its loop (a WebSocket handler returns before subscribing when
\* the upgrade fails).  Connection slots are taken in order.
Accept(h) ==
    /\ running /\ hpc[h] = "free"
    /\ \A g \in Handlers : g < h => hpc[g] # "free"
    /\ \/ /\ hpc' = [hpc EXCEPT ![h] = "recv"]
          /\ tail' = [tail EXCEPT !.rx_cnt = @ + 1]
          /\ next' = [next EXCEPT ![h] = tail.pos]
          /\ subAt' = [subAt EXCEPT ![h] = Len(published)]
       \/ /\ kind = "wsock"
          /\ hpc' = [hpc EXCEPT ![h] = "done"]
          /\ UNCHANGED <<tail, next, subAt>>
    /\ UNCHANGED <<envVars, clock, engineVars, buffer, published, kind, buf, out,
                   recvd, lagged, histVars, sideVars>>

\* a fit test that looks at the buffer only, not at the Reading to add
FitsLoose(k, b) ==
    IF k # "wsock"
    THEN Len(b) * SizeOfAccelData < TcpBufCapacity
    ELSE Len(b) < WsBufCapacity

\* buf.len() + data.len() < buf.capacity()  /  buf.len() + 1 < buf.capacity()
Fits(k, b) ==
    IF k # "wsock"
    THEN Len(b) * SizeOfAccelData + SizeOfAccelData < TcpBufCapacity
    ELSE Len(b) + 1 < WsBufCapacity

\* the batch buffer a loop iteration of the binding k starts with, when the
\* iteration before it left b: udp_server declares its buffer inside the
\* loop, the handlers declare theirs before it
IterBuf(k, b) == IF k = "udp" THEN <<>> ELSE b

\* the Err(e) arm of the match on recv(): TRUE iff the handler of kind k
\* leaves its loop
BreaksOnLag(k) == k = "wsock"

\* source.recv().await returned: the match on its result, and the loop
\* condition that follows
HandlerRecv(h) ==
    /\ hpc[h] = "recv"
    /\ LET r == Recv(tail, buffer, next[h])
       IN  /\ r.kind # "empty"
           /\ next' = [next EXCEPT ![h] = r.next]
           /\ IF r.kind = "lagged"
              THEN /\ lagged' = [lagged EXCEPT ![h] = TRUE]
                   /\ UNCHANGED <<recvd, buf, out>>
                   /\ IF BreaksOnLag(kind) THEN Close(h) ELSE Loop(h)
              ELSE /\ recvd' = [recvd EXCEPT ![h] = Append(@, r.slot)]
                   /\ lagged' = lagged
                   /\ IF Fits(kind, IterBuf(kind, buf[h]))
                      THEN /\ buf' = [buf EXCEPT ![h] = Append(IterBuf(kind, @), r.slot.val)]
                           /\ out' = out
                           /\ Loop(h)
                      ELSE \E wok \in BOOLEAN :
                             IF wok
                             THEN /\ out' = [out EXCEPT ![h] = Append(@, IterBuf(kind, buf[h]))]
                                  /\ buf' = [buf EXCEPT ![h] = <<r.slot.val>>]
                                  /\ Loop(h)
                             ELSE /\ Close(h)
                                  /\ UNCHANGED <<out, buf>>
    /\ UNCHANGED <<envVars, clock, engineVars, buffer, published, kind, subAt,
                   histVars, sideVars>>

\* the other arm of the select! of handle_client_wsock: a message of the
\* client (the loop goes on), or a close / end of stream / error (break)
WsIncoming(h) ==
    /\ hpc[h] = "recv" /\ kind = "wsock"
    /\ \E closing \in BOOLEAN : IF closing THEN Close(h) ELSE Loop(h)
    /\ UNCHANGED <<envVars, clock, engineVars, buffer, published, kind, next,
                   buf, out, recvd, subAt, lagged, histVars, sideVars>>

\* ----------------------------------------------------------- specification
Next ==
    \/ GpioNew
    \/ \E d \in Devices : DrdyGet(d)
    \/ \E d \in Devices : SpiNew(d)
    \/ \E d \in Devices : AdxlNew(d)
    \/ \E d \in Devices : Start(d)
    \/ \E d \in Devices : Settle(d)
    \/ \E d \in Devices : Diag(d)
    \/ \E d \in Devices : Attach(d)
    \/ \E d \in Devices : Callback(d)
    \/ \E d \in Devices : CallbackSend(d)
    \/ \E d \in Devices : PollIter(d)
    \/ \E d \in Devices : PollSend(d)
    \/ CtrlC
    \/ \E h \in Handlers : Accept(h)
    \/ \E h \in Handlers : HandlerRecv(h)
    \/ \E h \in Handlers : WsIncoming(h)

Spec == Init /\ [][Next]_vars

\* ------------------------------------------------- fan-out specification
\* The channel under a long run of publishes.  It starts in the state Spec
\* reaches when the first client has connected while the only device
\* started up, and follows one polling producer whose chip answers every
\* transaction with the same block, and one handler whose client is silent.
FanoutBlock == <<0, 0, 16,  0, 0, 32,  255, 255, 240>>

InitLoop(kinds) ==
    /\ mode = "poll"
    /\ clock = SettleMicros + 60
    /\ running = TRUE
    /\ pc = [d \in Devices |-> IF d = 0 THEN "loop" ELSE "absent"]
    /\ cur = -1
    /\ ret = "none"
    /\ pins = <<>>
    /\ syncNow = 0
    /\ devid = [d \in Devices |-> IF d = 0 THEN EXPECTED_DEVICE_ID ELSE -1]
    /\ past = [d \in Devices |-> NoInstant]
    /\ datarate = [d \in Devices |-> [last |-> NoInstant, count |-> 0]]
    /\ now = [d \in Devices |-> IF d = 0 THEN SettleMicros + 60 ELSE NoInstant]
    /\ gap = [d \in Devices |-> 0]
    /\ pending = [d \in Devices |-> NoReading]
    /\ tail = [pos |-> 0, rx_cnt |-> 1]
    /\ buffer = <<>>
    /\ hpc = [h \in Handlers |-> IF h = 1 THEN "recv" ELSE "free"]
    /\ kind \in kinds
    /\ next = [h \in Handlers |-> 0]
    /\ buf = [h \in Handlers |-> <<>>]
    /\ out = [h \in Handlers |-> <<>>]
    /\ trig = [d \in Devices |-> <<>>]
    /\ lastRead = [d \in Devices |-> [busOk |-> TRUE, resOk |-> TRUE]]
    /\ published = <<>>
    /\ recvd = [h \in Handlers |-> <<>>]
    /\ subAt = [h \in Handlers |-> 0]
    /\ lagged = [h \in Handlers |-> FALSE]
    /\ reports = [d \in Devices |-> <<>>]
    /\ inv = [i \in Invocations |-> NoInvocation]
    /\ mainpc = "wait"
    /\ NoCall

InitFanout == InitLoop(Kinds)

PollIterFanout(d) ==
    PollIterOn(d, {[ok |-> TRUE, bytes |-> FanoutBlock]}, ReadMicros,
               Len(trig[d]) < MaxSends)

NextFanout ==
    \/ \E d \in Devices : PollIterFanout(d)
    \/ \E d \in Devices : PollSend(d)
    \/ \E h \in Handlers : HandlerRecv(h)

SpecFanout == InitFanout /\ [][NextFanout]_vars

\* ------------------------------------------- two-descriptor specification
\* accelerator_init over a list of two descriptors; the callbacks of a
\* device that is armed run while the next descriptor is initialized, and
\* one client connects
InitTwo == InitOn({0, 1}) /\ NoCall /\ mode = "edge" /\ kind = "tcp"

\* both data-ready lines pulse at the same spacing
TwoEdgeMicros == {400}

CallbackTwo(d) ==
    CallbackOn(d, {[ok |-> TRUE, bytes |-> FanoutBlock]}, TwoEdgeMicros,
               Len(trig[d]) < MaxEdges)

NextTwo ==
    \/ GpioNew
    \/ \E d \in Devices : DrdyGet(d)
    \/ \E d \in Devices : SpiNew(d)
    \/ \E d \in Devices : AdxlNew(d)
    \/ \E d \in Devices : Start(d)
    \/ \E d \in Devices : Settle(d)
    \/ \E d \in Devices : Diag(d)
    \/ \E d \in Devices : Attach(d)
    \/ \E d \in Devices : CallbackTwo(d)
    \/ \E d \in Devices : CallbackSend(d)
    \/ Accept(1)
    \/ HandlerRecv(1)

SpecTwo == InitTwo /\ [][NextTwo]_vars

\* ------------------------------------------------------ rate specification
\* the state Spec reaches in edge-triggered mode when accelerator_init has
\* armed the only device without a failure; rx clients (0 or 1) have
\* connected meanwhile, to a server spawning handlers of a kind of kinds
InitArmed(rx, kinds) ==
    /\ mode = "edge"
    /\ clock = SettleMicros + 60
    /\ running = TRUE
    /\ pc = [d \in Devices |-> IF d = 0 THEN "armed" ELSE "absent"]
    /\ cur = 1
    /\ ret = "ok"
    /\ pins = <<0>>
    /\ syncNow = 0
    /\ devid = [d \in Devices |-> IF d = 0 THEN EXPECTED_DEVICE_ID ELSE -1]
    /\ past = [d \in Devices |-> IF d = 0 THEN 0 ELSE NoInstant]
    /\ datarate = [d \in Devices |-> [last |-> NoInstant, count |-> 0]]
    /\ now = [d \in Devices |-> NoInstant]
    /\ gap = [d \in Devices |-> 0]
    /\ pending = [d \in Devices |-> NoReading]
    /\ tail = [pos |-> 0, rx_cnt |-> rx]
    /\ buffer = <<>>
    /\ hpc = [h \in Handlers |-> IF h <= rx THEN "recv" ELSE "free"]
    /\ kind \in kinds
    /\ next = [h \in Handlers |-> 0]
    /\ buf = [h \in Handlers |-> <<>>]
    /\ out = [h \in Handlers |-> <<>>]
    /\ trig = [d \in Devices |-> <<>>]
    /\ lastRead = [d \in Devices |-> [busOk |-> TRUE, resOk |-> TRUE]]
    /\ published = <<>>
    /\ recvd = [h \in Handlers |-> <<>>]
    /\ subAt = [h \in Handlers |-> 0]
    /\ lagged = [h \in Handlers |-> FALSE]
    /\ reports = [d \in Devices |-> <<>>]
    /\ inv = [i \in Invocations |-> NoInvocation]
    /\ mainpc = "wait"
    /\ NoCall

\* The Rate Tracker under falling edges spaced exactly one nominal period
\* apart, with no client connected.
InitRate == InitArmed(0, {"tcp"})

CallbackRate(d) ==
    CallbackOn(d, {[ok |-> TRUE, bytes |-> FanoutBlock]}, {get_odr(ACCEL_ODR)},
               Len(trig[d]) < MaxRateTriggers)

NextRate == \E d \in Devices : CallbackRate(d)

SpecRate == InitRate /\ [][NextRate]_vars

\* ------------------------------------------------------ race specification
\* accelerator_callback of device 0 run by up to two invocations at once,
\* one atomic access per step (a facility that does not serialize the
\* callbacks of a line).  fetch_update loads the window start, calls the
\* closure, and stores its result with a compare-exchange; when another
\* invocation changed the window start in between, it calls the closure
\* again on the value found.
RaceEdgeMicros == {400, 1000000}

RaceStep(i, from) == mode = "edge" /\ pc[0] = "armed" /\ inv[i].pc = from

\* Instant::now() and datarate.count.fetch_add(1)
RaceEnter(i) ==
    /\ RaceStep(i, "idle")
    /\ Len(trig[0]) < MaxRaceTriggers
    /\ \E dt \in RaceEdgeMicros :
         /\ clock' = clock + dt
         /\ inv' = [inv EXCEPT ![i] = [NoInvocation EXCEPT !.pc = "swap", !.now = clock']]
         /\ trig' = [trig EXCEPT ![0] = Append(@, clock')]
    /\ datarate' = [datarate EXCEPT ![0].count = @ + 1]
    /\ UNCHANGED <<envVars, pc, cur, ret, pins, syncNow, devid, past, now, gap, pending,
                   chanVars, handlerVars, lastRead, reports, mainpc, callVars>>

\* past.swap(None) and the gap
RaceSwap(i) ==
    /\ RaceStep(i, "swap")
    /\ gap' = [gap EXCEPT ![0] = SwapGap(past[0], inv[i].now)]
    /\ past' = [past EXCEPT ![0] = SwapInstalled(inv[i].now)]
    /\ inv' = [inv EXCEPT ![i].pc = "load"]
    /\ UNCHANGED <<envVars, clock, pc, cur, ret, pins, syncNow, devid, datarate, now,
                   pending, chanVars, handlerVars, histVars, reports, mainpc, callVars>>

\* fetch_update: the load of datarate.last
RaceLoad(i) ==
    /\ RaceStep(i, "load")
    /\ inv' = [inv EXCEPT ![i].pc = "closure", ![i].seen = datarate[0].last]
    /\ UNCHANGED <<envVars, clock, engineVars, chanVars, handlerVars, histVars,
                   reports, mainpc, callVars>>

\* fetch_update: the closure on the value seen, with its count.swap(0) and
\* its log; None abandons the update
RaceClosure(i) ==
    /\ RaceStep(i, "closure")
    /\ LET c == RateClosure(inv[i].seen, inv[i].now, datarate[0].count)
       IN  /\ datarate' = [datarate EXCEPT ![0].count = c.count]
           /\ reports' = [reports EXCEPT ![0] = @ \o c.log]
           /\ inv' = [inv EXCEPT ![i].pc = IF c.keep THEN "read" ELSE "cas",
                                 ![i].new = c.new]
    /\ UNCHANGED <<envVars, clock, pc, cur, ret, pins, syncNow, devid, past, now, gap,
                   pending, chanVars, handlerVars, histVars, mainpc, callVars>>

\* fetch_update: the compare-exchange of datarate.last
RaceCas(i) ==
    /\ RaceStep(i, "cas")
    /\ IF datarate[0].last = inv[i].seen
       THEN /\ datarate' = [datarate EXCEPT ![0].last = inv[i].new]
            /\ inv' = [inv EXCEPT ![i].pc = "read"]
       ELSE /\ datarate' = datarate
            /\ inv' = [inv EXCEPT ![i].pc = "closure", ![i].seen = datarate[0].last]
    /\ UNCHANGED <<envVars, clock, pc, cur, ret, pins, syncNow, devid, past, now, gap,
                   pending, chanVars, handlerVars, histVars, reports, mainpc, callVars>>

\* device.accel_norm() and the send when the channel has a receiver
RaceRead(i) ==
    /\ RaceStep(i, "read")
    /\ \E io \in SampleIO :
         LET data == accel_norm(io)
             r == Send(tail, buffer, AccelData(0, gap[0], data.val))
         IN  /\ lastRead' = [lastRead EXCEPT ![0] = [busOk |-> io.ok, resOk |-> data.ok]]
             /\ IF data.ok /\ HasReceivers(tail)
                THEN /\ tail' = r.tail
                     /\ buffer' = r.buffer
                     /\ published' = Append(published, AccelData(0, gap[0], data.val))
                ELSE UNCHANGED chanVars
    /\ inv' = [inv EXCEPT ![i] = NoInvocation]
    /\ UNCHANGED <<envVars, clock, engineVars, handlerVars, trig, reports, mainpc,
                   callVars>>

InitRace == \E rx \in {0, 1} : InitArmed(rx, {"tcp"})

NextRace ==
    \/ \E i \in Invocations : RaceEnter(i)
    \/ \E i \in Invocations : RaceSwap(i)
    \/ \E i \in Invocations : RaceLoad(i)
    \/ \E i \in Invocations : RaceClosure(i)
    \/ \E i \in Invocations : RaceCas(i)
    \/ \E i \in Invocations : RaceRead(i)

SpecRace == InitRace /\ [][NextRace]_vars

\* -------------------------------------------------- shutdown specification
\* main.rs as deployed: the polling task of the one descriptor, the server
\* with one client, the ctrl_c task and main.  Every task that can take a
\* step takes it eventually; Ctrl-C and the client are the environment's.
InitShutdown == Init /\ mode = "poll" /\ kind = "tcp"

PollIterStop(d) == PollIterOn(d, SampleIO, ReadMicros, Len(trig[d]) < MaxPolls)

NextShutdown ==
    \/ \E d \in Devices : SpiNew(d)
    \/ \E d \in Devices : AdxlNew(d)
    \/ \E d \in Devices : Start(d)
    \/ \E d \in Devices : Settle(d)
    \/ \E d \in Devices : Diag(d)
    \/ \E d \in Devices : PollIterStop(d)
    \/ \E d \in Devices : PollSend(d)
    \/ CtrlC
    \/ Accept(1)
    \/ HandlerRecv(1)
    \/ MainObserve
    \/ MainJoin

FairShutdown ==
    /\ \A d \in Devices :
          /\ WF_vars(SpiNew(d)) /\ WF_vars(AdxlNew(d)) /\ WF_vars(Start(d))
          /\ WF_vars(Settle(d)) /\ WF_vars(Diag(d))
          /\ WF_vars(PollIterStop(d)) /\ WF_vars(PollSend(d))
    /\ WF_vars(MainObserve) /\ WF_vars(MainJoin)

SpecShutdown == InitShutdown /\ [][NextShutdown]_vars /\ FairShutdown

\* -------------------------------------------------- decode specification
\* accel_raw called on a block the chip answered with: every axis takes the
\* corner values of its three bytes
AxisBytes == {<<b0, b1, b2>> : b0 \in {0, 127, 128, 255}, b1 \in {0, 255},
                               b2 \in {0, 15, 240, 255}}
AxisBlocks == {x \o y \o z : x, y, z \in AxisBytes}

\* the library is called outside of the daemon: no descriptor, no client
InitCall == InitOn({}) /\ mode = "poll" /\ kind = "tcp" /\ res = <<>>

InitAxis == InitCall /\ arg \in AxisBlocks

CallAccelRaw ==
    /\ res = <<>>
    /\ res' = <<accel_raw([ok |-> TRUE, bytes |-> arg])>>
    /\ UNCHANGED <<envVars, clock, engineVars, chanVars, handlerVars, histVars,
                   reports, inv, mainpc, arg>>

SpecAxis == InitAxis /\ [][CallAccelRaw]_vars

\* ------------------------------------------- normalization specification
\* accel_norm called on a handle of any range, the chip answering with a
\* block whose x takes every corner value and whose y, z take the extremes
NormBlocks == {x \o y \o z : x \in AxisBytes,
                              y \in {<<127, 255, 240>>, <<128, 0, 0>>},
                              z \in {<<0, 0, 16>>, <<255, 255, 240>>}}

InitNorm == InitCall /\ arg \in {"norm"} \X Ranges \X NormBlocks

CallAccelNorm ==
    /\ res = <<>>
    /\ res' = <<accel_norm_of(arg[2], [ok |-> TRUE, bytes |-> arg[3]])>>
    /\ UNCHANGED <<envVars, clock, engineVars, chanVars, handlerVars, histVars,
                   reports, inv, mainpc, arg>>

SpecNorm == InitNorm /\ [][CallAccelNorm]_vars

\* --------------------------------------------- bus-order specification
\* Adxl355::new called with any Config on a bus that fails any of its
\* transactions, and start called on a handle
InitBus ==
    /\ InitCall
    /\ arg \in ({"new"} \X Configs \X BOOLEAN \X ChipIds \X BOOLEAN \X BOOLEAN)
               \cup ({"start"} \X BOOLEAN)

CallNew ==
    /\ res = <<>> /\ arg[1] = "new"
    /\ res' = <<Adxl355_new_bus(arg[2], arg[3], arg[4], arg[5], arg[6])>>
    /\ UNCHANGED <<envVars, clock, engineVars, chanVars, handlerVars, histVars,
                   reports, inv, mainpc, arg>>

CallStart ==
    /\ res = <<>> /\ arg[1] = "start"
    /\ res' = <<start(arg[2])>>
    /\ UNCHANGED <<envVars, clock, engineVars, chanVars, handlerVars, histVars,
                   reports, inv, mainpc, arg>>

NextBus == CallNew \/ CallStart

SpecBus == InitBus /\ [][NextBus]_vars

\* ------------------------------------------------ wire-form specification
\* as_bytes called on two Readings
WireWords == {<<0, 0>>, <<0, 1>>, <<4660, 22136>>, <<65535, 65535>>}
\* +0, -0, 1.0, -2.0, the least subnormal, 1.0 + 1 ulp, a NaN
WireFloats == {[sign |-> 0, exp |-> 0, man |-> 0], [sign |-> 1, exp |-> 0, man |-> 0],
               [sign |-> 0, exp |-> 127, man |-> 0], [sign |-> 1, exp |-> 128, man |-> 0],
               [sign |-> 0, exp |-> 0, man |-> 1], [sign |-> 0, exp |-> 127, man |-> 1],
               [sign |-> 0, exp |-> 255, man |-> 4194304]}
WireReadings ==
    [idx : {<<0, 0>>, <<0, 1>>, <<65535, 65535>>},
     gap : WireWords,
     x : WireFloats,
     y : {[sign |-> 0, exp |-> 0, man |-> 0], [sign |-> 1, exp |-> 126, man |-> 8388607]},
     z : {[sign |-> 0, exp |-> 127, man |-> 0], [sign |-> 0, exp |-> 127, man |-> 65536]}]

InitWire == InitCall /\ arg \in WireReadings \X WireReadings

CallAsBytes ==
    /\ res = <<>>
    /\ res' = <<as_bytes(arg[1]), as_bytes(arg[2])>>
    /\ UNCHANGED <<envVars, clock, engineVars, chanVars, handlerVars, histVars,
                   reports, inv, mainpc, arg>>

SpecWire == InitWire /\ [][CallAsBytes]_vars

\* ------------------------------------------------------ idle specification
\* An armed device whose data-ready line pulses at the nominal period or
\* stays silent for two seconds, and one subscribed binding of any kind.
IdleEdgeMicros == {get_odr(ACCEL_ODR), 2000000}

InitIdle == InitArmed(1, Bindings)

CallbackIdle(d) ==
    CallbackOn(d, {[ok |-> TRUE, bytes |-> FanoutBlock]}, IdleEdgeMicros,
               Len(trig[d]) < MaxIdleEdges)

NextIdle ==
    \/ \E d \in Devices : CallbackIdle(d)
    \/ \E d \in Devices : CallbackSend(d)
    \/ HandlerRecv(1)

SpecIdle == InitIdle /\ [][NextIdle]_vars

\* ----------------------------------------------- observation specification
\* An armed device with one client; the edges come 400 us or one second
\* apart, so that invocations that close a window and invocations that do
\* not meet the same TimestampSlot with different counters and window starts.
ObsIO == [ok : {TRUE}, bytes : Blocks \cup {FanoutBlock}]

InitObs == InitArmed(1, {"tcp"})

CallbackObs(d) == CallbackOn(d, ObsIO, RaceEdgeMicros, Len(trig[d]) < MaxObsEdges)

NextObs ==
    \/ \E d \in Devices : CallbackObs(d)
    \/ \E d \in Devices : CallbackSend(d)
    \/ HandlerRecv(1)

SpecObs == InitObs /\ [][NextObs]_vars

\* ----------------------------------------------------- batch specification
\* The fan-out run with a subscribed binding of any kind, the UDP server
\* included.
InitBatch == InitLoop(Bindings)

SpecBatch == InitBatch /\ [][NextFanout]_vars

\* the Readings of a sequence of written batches, in the order written
RECURSIVE Batched(_)
Batched(batches) ==
    IF batches = <<>> THEN <<>> ELSE Head(batches) \o Batched(Tail(batches))

\* ------------------------------------------------------------- properties
\* the instant captured by the latest trigger of d, and the one before it
LastTrig(d) == trig[d][Len(trig[d])]
PrevTrig(d) == trig[d][Len(trig[d]) - 1]

Sending(d) == pc[d] \in {"send", "cbsend"}

\* C1: in edge-triggered mode the gap computed by every callback invocation
\* after the first one of a device is the time elapsed between the instant
\* captured by the previous invocation of that device and the instant
\* captured by this one.
C1_GapIsElapsed ==
    \A d \in Devices :
        (mode = "edge" /\ Len(trig[d]) >= 2) => gap[d] = LastTrig(d) - PrevTrig(d)

\* C2: the first Reading of a freshly initialized device, in either mode,
\* carries a gap of 0 or of the nominal sample period, never a value derived
\* from an instant captured before the first trigger.
C2_FirstGapZeroOrNominal ==
    \A d \in Devices :
        (Len(trig[d]) = 1 /\ lastRead[d].resOk) => gap[d] \in {0, get_odr(ACCEL_ODR)}

\* C3: after a callback invocation the TimestampSlot of its device holds the
\* instant captured by that (the most recent) invocation.
C3_SlotHoldsLatestInstant ==
    \A d \in Devices :
        (mode = "edge" /\ Len(trig[d]) >= 1) => past[d] = LastTrig(d)

\* C4: accel_raw / accel_norm return an error whenever the transfer of the
\* data bytes failed; they never return Ok after a failed transfer.
C4_FailedTransferIsError ==
    \A d \in Devices : ~lastRead[d].busOk => ~lastRead[d].resOk

\* C5: a trigger whose bus transaction failed hands no Reading to the
\* channel, and the device stays in its steady state for the next trigger.
C5_FailedTriggerPublishesNothing ==
    \A d \in Devices :
        (Len(trig[d]) >= 1 /\ ~lastRead[d].busOk) =>
            /\ ~Sending(d)
            /\ pending[d] = NoReading
            /\ pc[d] \in {"armed", "loop", "done"}

\* C6: when the identity read succeeds with a value other than 0xED,
\* Adxl355::new fails: no handle exists and the device never reaches
\* start() or steady-state triggering.
C6_IdentityMismatchFails ==
    \A d \in Devices :
        (devid[d] # -1 /\ devid[d] # EXPECTED_DEVICE_ID) => pc[d] = "failed"

\* C7: a Reading is handed to the channel only if receiver_count() was
\* positive when the producer checked; a trigger that finds zero subscribers
\* publishes nothing and leaves the channel as it was, while the gap
\* bookkeeping advances (polling: `now` becomes the instant of the trigger;
\* edge: the TimestampSlot is exchanged and the gap computed from it).
C7_PublishOnlyWithSubscriber ==
    [][\A d \in Devices :
          /\ (Len(trig'[d]) > Len(trig[d]) /\ tail.rx_cnt = 0) =>
                /\ ~Sending(d)'
                /\ pending'[d] = NoReading
                /\ buffer' = buffer /\ tail' = tail /\ published' = published
                /\ mode = "poll" => now'[d] = LastTrig(d)' /\ gap'[d] = now'[d] - now[d]
                /\ mode = "edge" =>
                      /\ past'[d] = NoInstant
                      /\ gap'[d] = IF past[d] = NoInstant
                                   THEN get_odr(ACCEL_ODR)
                                   ELSE LastTrig(d)' - past[d]
          /\ (~Sending(d) /\ Sending(d)') => tail.rx_cnt > 0
          /\ (Sending(d) /\ ~Sending(d)' /\ tail.rx_cnt = 0) =>
                buffer' = buffer /\ published' = published
      ]_vars

C7_Witness ==
    /\ mode = "poll"
    /\ \A h \in Handlers : hpc[h] = "free"
    /\ Len(trig[0]) >= 2
    /\ now[0] = LastTrig(0)
    /\ buffer = <<>>

\* C8: a subscriber to which no lag was signalled has received exactly the
\* Readings published after it subscribed, up to its cursor: in publication
\* order, none twice, none left out, none from before its subscription.
C8_ExactSequenceAfterSubscription ==
    \A h \in Handlers :
        (hpc[h] # "free" /\ ~lagged[h]) =>
            /\ subAt[h] + Len(recvd[h]) <= Len(published)
            /\ next[h] = subAt[h] + Len(recvd[h])
            /\ \A i \in 1..Len(recvd[h]) :
                  /\ recvd[h][i].pos = subAt[h] + i - 1
                  /\ recvd[h][i].val = published[subAt[h] + i]

C8_Witness ==
    \E h \in Handlers :
        /\ subAt[h] > 0
        /\ Len(recvd[h]) >= 2
        /\ recvd[h][1].val # recvd[h][2].val

\* C9: a publish is enabled whenever the producer has reached it, whatever
\* the progress of the subscribers, and changes no subscriber's state; into
\* a full ring with a subscriber it stores the Reading at the tail and
\* releases the oldest retained one.
C9_PublishNeverWaits ==
    /\ [](\A d \in Devices : Sending(d) => ENABLED (PollSend(d) \/ CallbackSend(d)))
    /\ [][\A d \in Devices :
             (Sending(d) /\ ~Sending(d)') =>
                /\ next' = next /\ hpc' = hpc
                /\ (tail.rx_cnt > 0) =>
                      /\ tail'.pos = tail.pos + 1
                      /\ buffer'[Len(buffer')] = [pos |-> tail.pos, val |-> pending[d]]
                      /\ Len(buffer) = BufLen =>
                            /\ Len(buffer') = BufLen
                            /\ buffer'[1] = buffer[2]
         ]_vars

C9_Witness ==
    /\ tail.pos > BufLen
    /\ Len(buffer) = BufLen
    /\ \E h \in Handlers : hpc[h] = "recv" /\ next[h] = 0

\* C10: a handler to whose subscriber a lag is signalled stays in its loop
\* with the cursor at the oldest Reading still buffered; it does not
\* terminate because of the lag.
C10_LagDoesNotStopHandler ==
    [][\A h \in Handlers :
          (~lagged[h] /\ lagged'[h]) =>
              /\ hpc'[h] = "recv"
              /\ next'[h] = Oldest(tail, buffer)
      ]_vars

\* C11: with two devices armed, every gap computed for a device is 0, the
\* nominal period, or the time between two instants captured by callback
\* invocations of that same device.
C11_GapFromOwnInstants ==
    (\A d \in Devices : pc[d] \in {"armed", "cbsend"}) =>
        \A d \in Devices :
            Len(trig[d]) >= 1 =>
                \/ gap[d] \in {0, get_odr(ACCEL_ODR)}
                \/ \E i, j \in 1..Len(trig[d]) : gap[d] = trig[d][j] - trig[d][i]

\* C15: a descriptor that fails at a stage of its initialization is skipped:
\* the call goes on with the next descriptor, never returns an error because
\* of it, and returns exactly the pins of the devices that were armed, in
\* list order; an armed device is triggered.
C15_FailedDeviceIsSkipped ==
    /\ ret = "err" => cur = -1 /\ \A d \in Devices : pc[d] \in {"absent", "drdy"}
    /\ (ret = "none" /\ cur >= 0) =>
          /\ cur < NumDescs
          /\ pc[cur] \in {"drdy", "spi", "new", "start", "settle", "diag", "attach"}
    /\ \A d \in Devices :
          (pc[d] # "absent" /\ (ret = "ok" \/ cur > d)) =>
              pc[d] \in {"armed", "cbsend", "failed"}
    /\ ret = "ok" =>
          pins = SelectSeq([i \in 1..NumDescs |-> i - 1],
                           LAMBDA d : pc[d] \in {"armed", "cbsend"})
    /\ \A d \in Devices :
          (pc[d] = "armed" /\ Len(trig[d]) < MaxEdges) => ENABLED CallbackTwo(d)

C15_Witness ==
    /\ ret = "ok"
    /\ pc[0] = "failed"
    /\ pins = <<1>>
    /\ Len(trig[1]) >= 1

\* C12: under triggers one nominal period (1000 us) apart the Rate Tracker
\* has logged one rate per whole second elapsed since the first trigger, and
\* every logged rate is 1000 samples per second (count / micros = 1000 / 10^6).
C12_RateIs1000OncePerSecond ==
    \A d \in Devices :
        Len(trig[d]) >= 1 =>
            /\ Len(reports[d]) = (LastTrig(d) - trig[d][1]) \div 1000000
            /\ \A i \in 1..Len(reports[d]) :
                  reports[d][i].count * 1000000 = 1000 * reports[d][i].micros

\* C13: each window is closed by one invocation only: no two logged rates
\* (each logged with its count.swap(0)) close the window of the same start,
\* however the invocations of a device interleave.
C13_OneResetPerWindow ==
    \A d \in Devices :
        \A i, j \in 1..Len(reports[d]) :
            i # j => reports[d][i].start # reports[d][j].start

\* C14: with the flag cleared, a polling task that is at its loop condition
\* publishes nothing more and leaves the loop (so at most the one Reading of
\* an iteration already past the condition is published), and eventually
\* every polling task has terminated and main has returned.
C14_ShutdownTerminates ==
    /\ [][\A d \in Devices :
             (~running /\ pc[d] \in {"loop", "done"}) =>
                 /\ published' = published
                 /\ pc'[d] \in {pc[d], "done"}]_vars
    /\ (~running) ~> (/\ mainpc = "done"
                      /\ \A d \in Devices : pc[d] \in {"absent", "failed", "done"})

C14_Witness ==
    /\ ~running
    /\ mainpc = "done"
    /\ pc[0] = "done"
    /\ Len(published) = MaxPolls

\* C16: a device that has not completed its start-up (or failed in it) has
\* no trigger, no pending and no published Reading; the stages follow one
\* another as start(), the settling delay, the diagnostic sample; the
\* diagnostic sample leaves the channel untouched; a failed device stays
\* failed.
C16_NoReadingBeforeStartUp ==
    /\ [](\A d \in Devices :
            pc[d] \in {"absent", "drdy", "spi", "new", "start", "settle", "diag",
                       "attach", "failed"} =>
                /\ trig[d] = <<>>
                /\ pending[d] = NoReading
                /\ \A i \in 1..Len(published) : published[i].idx # d)
    /\ [][\A d \in Devices :
             /\ (pc'[d] = "settle" /\ pc[d] # "settle") => pc[d] = "start"
             /\ (pc'[d] = "diag" /\ pc[d] # "diag") =>
                    pc[d] = "settle" /\ clock' = clock + SettleMicros
             /\ (pc'[d] \in {"attach", "armed", "loop"} /\ pc[d] \notin {"armed", "loop", "cbsend", "send"})
                    => pc[d] \in {"diag", "attach"}
             /\ (pc[d] = "diag" /\ pc'[d] # "diag") =>
                    /\ pc'[d] \in {"attach", "loop"}
                    /\ published' = published /\ buffer' = buffer /\ tail' = tail
                    /\ pending' = pending
             /\ pc[d] = "failed" => pc'[d] = "failed"
         ]_vars

C16_Witness ==
    /\ Len(published) >= 1
    /\ published[1].idx = 0
    /\ pc[0] \in {"armed", "loop"}
    /\ clock >= SettleMicros

\* C17: accel_raw returns, per axis, the two's-complement value of the 20-bit
\* field b0 b1 (b2 >> 4): a value of -2^19 .. 2^19 - 1, 2^19 - 1 for the field
\* 0x7FFFF, -2^19 for 0x80000, the same whatever the low nibble of b2.
C17_RawIsTwosComplement ==
    (res # <<>> /\ Len(arg) = 9) =>
        LET v == res[1].val
            axes == <<v.x, v.y, v.z>>
            field(k) == arg[3 * k - 2] * 4096 + arg[3 * k - 1] * 16 + arg[3 * k] \div 16
            signed(f) == IF f >= 524288 THEN f - 1048576 ELSE f
            masked == [i \in 1..9 |-> IF i % 3 = 0 THEN arg[i] - (arg[i] % 16) ELSE arg[i]]
        IN  /\ res[1].ok
            /\ \A k \in 1..3 :
                  /\ axes[k] = signed(field(k))
                  /\ axes[k] >= -524288 /\ axes[k] <= 524287
                  /\ field(k) = 524287 => axes[k] = 524287
                  /\ field(k) = 524288 => axes[k] = -524288
            /\ accel_raw([ok |-> TRUE, bytes |-> masked]) = res[1]

C17_Witness ==
    /\ res # <<>> /\ Len(arg) = 9
    /\ res[1].val.x = -524288
    /\ res[1].val.y = 524287
    /\ res[1].val.z = -1
    /\ arg[9] % 16 # 0

\* C18: as_bytes yields 20 bytes; bytes 1-4, 5-8, 9-12, 13-16, 17-20 read as
\* little-endian u32 are idx, gap and the IEEE-754 bit patterns of x, y, z;
\* two Readings have the same bytes exactly when their five fields have the
\* same bit patterns.
C18_WireFormIsLittleEndian ==
    (res # <<>> /\ Len(arg) = 2) =>
        /\ \A n \in 1..2 :
              LET b == res[n]
                  hi(k) == b[4 * k - 1] + 256 * b[4 * k]
                  lo(k) == b[4 * k - 3] + 256 * b[4 * k - 2]
                  float(k) == [sign |-> hi(k) \div 32768,
                               exp |-> (hi(k) % 32768) \div 128,
                               man |-> (hi(k) % 128) * 65536 + lo(k)]
              IN  /\ Len(b) = SizeOfAccelData
                  /\ \A i \in 1..Len(b) : b[i] \in 0..255
                  /\ <<hi(1), lo(1)>> = arg[n].idx
                  /\ <<hi(2), lo(2)>> = arg[n].gap
                  /\ float(3) = arg[n].x
                  /\ float(4) = arg[n].y
                  /\ float(5) = arg[n].z
        /\ (res[1] = res[2]) <=> (arg[1] = arg[2])

C18_Witness ==
    /\ res # <<>> /\ Len(arg) = 2
    /\ arg[1].x = [sign |-> 1, exp |-> 0, man |-> 0]
    /\ arg[2] = [arg[1] EXCEPT !.x = [sign |-> 0, exp |-> 0, man |-> 0]]
    /\ arg[1].idx = <<65535, 65535>>
    /\ res[1] # res[2]

\* C19: a binding that waits in recv() with nothing left to receive while
\* more than one second passes has, by then, sent every Reading it received:
\* each is in a batch written to the client.
C19_IdleBufferIsFlushed ==
    [][\A h \in Handlers :
          (hpc[h] = "recv" /\ next[h] = tail.pos /\ clock' - clock > 1000000) =>
              \A i \in 1..Len(recvd[h]) :
                  \E j \in 1..Len(out'[h]) :
                      \E k \in 1..Len(out'[h][j]) : out'[h][j][k] = recvd[h][i].val]_vars

\* C20: in every binding that is in its loop, the batches sent so far
\* followed by the buffer the next iteration starts with are exactly the
\* Readings received, in order (Readings accumulate across receives and a
\* sent batch is followed by a buffer restarted with the Reading that did
\* not fit), and a binding that has received more Readings than its buffer
\* has room for has sent a batch.
C20_BatchAccumulatesAndIsSent ==
    \A h \in Handlers :
        hpc[h] = "recv" =>
            /\ Batched(out[h]) \o IterBuf(kind, buf[h])
                   = [i \in 1..Len(recvd[h]) |-> recvd[h][i].val]
            /\ (IF kind = "wsock"
                 THEN Len(recvd[h]) > WsBufCapacity
                 ELSE Len(recvd[h]) * SizeOfAccelData > TcpBufCapacity)
                   => out[h] # <<>>

\* C21: the Reading an invocation hands to the channel is determined by
\* the device index, the TimestampSlot, the captured instant and the bus
\* response alone, whatever the window start and the counter are and whether
\* or not the invocation closes a window; and the published sequence grows
\* by that Reading only.
C21_RateTrackerIsObservational ==
    [][\A d \in Devices :
          /\ (pc[d] = "armed" /\ pc'[d] = "cbsend") =>
                 \E io \in ObsIO :
                     pending'[d] = AccelData(d, SwapGap(past[d], clock'), accel_norm(io).val)
          /\ (pc[d] = "cbsend" /\ pc'[d] = "armed") =>
                 published' = Append(published, pending[d])]_vars

C21_Witness ==
    /\ pc[0] = "cbsend"
    /\ Len(reports[0]) = 1
    /\ datarate[0] = [last |-> clock, count |-> 0]
    /\ Len(published) = 2
    /\ published[2].gap = pending[0].gap

\* C22: accel_norm never fails, and each axis of its result is
\* raw / 524287 times 2, 4 or 8 for the 2g, 4g, 8g range, raw being the
\* 20-bit two's-complement sample of the axis; the result is linear in raw
\* (raw times the result for raw = 1).
C22_NormIsLinearAndRangeScaled ==
    (res # <<>> /\ Len(arg) = 3) =>
        LET b == arg[3]
            field(i) == b[i] * 4096 + b[i + 1] * 16 + b[i + 2] \div 16
            raw(i) == IF field(i) >= 524288 THEN field(i) - 1048576 ELSE field(i)
            g == CASE arg[2] = "_2G" -> 2 [] arg[2] = "_4G" -> 4 [] arg[2] = "_8G" -> 8
            one == accel_norm_of(arg[2], [ok |-> TRUE, bytes |-> <<0, 0, 16, 0, 0, 16, 0, 0, 16>>]).val
            v == res[1].val
            is(n, i, u) == /\ n.den = 524287
                           /\ n.num = raw(i) * g
                           /\ n.den = u.den /\ n.num = raw(i) * u.num
        IN  /\ res[1].ok
            /\ is(v.x, 1, one.x) /\ is(v.y, 4, one.y) /\ is(v.z, 7, one.z)

C22_Witness ==
    /\ res # <<>> /\ Len(arg) = 3
    /\ arg[2] = "_8G"
    /\ arg[3] = <<128, 0, 0,  127, 255, 240,  255, 255, 240>>
    /\ res[1].val.x.num = -4194304
    /\ res[1].val.y.num = 4194296
    /\ res[1].val.z.num = -8

\* C23: the transactions of Adxl355::new are the identity read, the FILTER
\* write and the RANGE write, in this order and each at most once, up to
\* and including the first one that fails; a handle is returned iff all
\* three succeeded and an error otherwise; start issues one register write
\* and returns its outcome.
C23_NewIssuesEachTransactionOnce ==
    res # <<>> =>
        LET bus == res[1].bus
            regs == [i \in 1..Len(bus) |-> <<bus[i].op, bus[i].reg>>]
            order == <<(<<"read", "DEVID">>), (<<"write", "FILTER">>), (<<"write", "RANGE">>)>>
        IN  IF arg[1] = "new"
            THEN LET oks == <<arg[3], arg[5], arg[6]>>
                     failed == {i \in 1..3 : ~oks[i]}
                     issued == IF failed = {} THEN 3
                               ELSE CHOOSE i \in failed : \A j \in failed : i <= j
                 IN  /\ regs = SubSeq(order, 1, issued)
                     /\ res[1].ok <=> failed = {}
                     /\ res[1].ok <=> Adxl355_new(arg[3], arg[4], arg[5], arg[6])
            ELSE /\ regs = <<(<<"write", "POWER_CTL">>)>>
                 /\ res[1].ok <=> arg[2]

C23_Witness ==
    /\ res # <<>> /\ arg[1] = "new"
    /\ arg[3] /\ ~arg[5] /\ arg[6]
    /\ ~res[1].ok
    /\ Len(res[1].bus) = 2

Received(h) == [i \in 1..Len(recvd[h]) |-> recvd[h][i].val]
Unwritten(h) == Len(recvd[h]) - Len(Batched(out[h]))

\* what C25 says of the writes of a TCP handler: they are a prefix of the
\* records received, every write is a whole, non-zero number of records
\* within the 1024-byte buffer, and in the loop the rest is the buffer
WritesArePrefix(h) ==
    /\ Unwritten(h) >= 0
    /\ Batched(out[h]) = SubSeq(Received(h), 1, Len(Batched(out[h])))
    /\ \A j \in 1..Len(out[h]) :
          /\ Len(out[h][j]) >= 1
          /\ Len(out[h][j]) * SizeOfAccelData <= TcpBufCapacity
    /\ hpc[h] = "recv" => Batched(out[h]) \o buf[h] = Received(h)

\* C25 (as stated): the writes of a TCP handler are a prefix of the records
\* it received, each write a whole number of records within the buffer, and
\* when the handler has stopped the received Readings it has not written
\* are at most one partial batch (they fit in the 1024-byte buffer).
C25_UnwrittenIsOnePartialBatch ==
    kind = "tcp" =>
        \A h \in Handlers :
            /\ WritesArePrefix(h)
            /\ hpc[h] = "done" => Unwritten(h) * SizeOfAccelData < TcpBufCapacity

\* C25 (amended): as above, but a handler that has stopped leaves unwritten
\* the Readings of its buffer and, when it stopped on a failed write, the
\* Reading that did not fit as well: one Reading more than the buffer holds.
C25_UnwrittenIsBufferAndReadingInHand ==
    kind = "tcp" =>
        \A h \in Handlers :
            /\ WritesArePrefix(h)
            /\ hpc[h] = "done" =>
                  /\ Unwritten(h) \in {Len(buf[h]), Len(buf[h]) + 1}
                  /\ Len(buf[h]) * SizeOfAccelData < TcpBufCapacity

C25_Witness ==
    /\ kind = "tcp"
    /\ hpc[1] = "done"
    /\ Len(out[1]) = 1
    /\ Len(recvd[1]) = 103
    /\ Unwritten(1) = 52

\* C26: the subscriber count of the channel is the number of handlers in
\* their loop: 0 at channel creation, one more with each accepted client
\* whose handler subscribes, one less when a handler ends; and while it is 0
\* nothing is published.
C26_SubscribersAreLiveHandlers ==
    /\ [](tail.rx_cnt = Cardinality({h \in Handlers : hpc[h] = "recv"}))
    /\ [][/\ \A h \in Handlers :
               /\ (hpc[h] = "free" /\ hpc'[h] = "recv") => tail'.rx_cnt = tail.rx_cnt + 1
               /\ (hpc[h] = "recv" /\ hpc'[h] = "done") => tail'.rx_cnt = tail.rx_cnt - 1
           /\ tail.rx_cnt = 0 => published' = published]_vars

C26_Witness ==
    /\ mode = "edge" /\ kind = "tcp"
    /\ ~running
    /\ hpc[1] = "done" /\ hpc[2] = "free"
    /\ tail.rx_cnt = 0
    /\ pc[0] = "armed"
    /\ Len(trig[0]) = 2
    /\ Len(published) = 1
    /\ published[1].gap = trig[0][1] - syncNow

====
